---- MODULE Spec2Model ----
(***************************************************************************)
(* Read-access layer of the BRC20 ledger (src/okx/brc20_db/read_only.rs).  *)
(* The database is a set of named tables, each a sorted map from string    *)
(* keys to byte strings.  A BRC20DatabaseReader is built over a read-only  *)
(* transaction (Rtx) or over a read-write transaction (Wtx) and answers    *)
(* the LedgerRead queries.  Strings and stored values are sequences of     *)
(* bytes (naturals below 256).                                             *)
(***************************************************************************)
EXTENDS Integers, Sequences, FiniteSets, TLC

\* tables: the database as the transaction sees it, table name -> (key -> value);
\*         its domain is the set of existing tables
\* reader: "none" before a BRC20DatabaseReader is built, then the variant of
\*         its ReaderWrapper, "Rtx" or "Wtx"
\* last:   the last query answered since the last write, with its result
\* writes: the number of writes made so far
VARIABLES tables, reader, last, writes

vars == <<tables, reader, last, writes>>

(* ---------------- bounds and the finite input sets ---------------- *)

\* number of writes the external writer performs on top of the initial database
MaxWrites == 1

\* ScriptKey encodings "a" and "ab": one is a proper prefix of the other
ScriptKeys == {<<97>>, <<97, 98>>}

\* Tick values "AB", "ab", "ac": two of them differ only by case
Ticks == {<<65, 66>>, <<97, 98>>, <<97, 99>>}

\* transaction ids (two bytes each)
Txids == {<<1, 2>>, <<3, 4>>}

\* inscription ids
InscriptionIds == {7, 8}

(* ---------------- strings: order and conversions ---------------- *)

\* str::cmp, the key order of a redb table with &str keys: byte-lexicographic
RECURSIVE StrLess(_, _)
StrLess(a, b) ==
  IF b = <<>> THEN FALSE
  ELSE IF a = <<>> THEN TRUE
  ELSE IF a[1] # b[1] THEN a[1] < b[1]
  ELSE StrLess(Tail(a), Tail(b))

StrLeq(a, b) == a = b \/ StrLess(a, b)

\* Tick::to_lowercase: ASCII upper-case letters are mapped to lower case
to_lowercase(tick) ==
  [i \in 1..Len(tick) |-> IF tick[i] >= 65 /\ tick[i] <= 90 THEN tick[i] + 32 ELSE tick[i]]

HexDigit(d) == IF d < 10 THEN 48 + d ELSE 87 + d

\* Tick::hex: two lower-case hexadecimal digits per byte
RECURSIVE hex(_)
hex(bytes) ==
  IF bytes = <<>> THEN <<>>
  ELSE <<HexDigit(bytes[1] \div 16), HexDigit(bytes[1] % 16)>> \o hex(Tail(bytes))

RECURSIVE Reverse(_)
Reverse(s) == IF s = <<>> THEN <<>> ELSE Reverse(Tail(s)) \o <<s[1]>>

\* Txid::to_string: the hash bytes in reverse order, in hexadecimal
txid_to_string(txid) == hex(Reverse(txid))

(* ---------------- Key Codec ---------------- *)

SEPARATOR == 0

MIN_TICKER_SENTINEL == <<0, 0>>

MAX_TICKER_SENTINEL == <<255, 255>>

\* pointKey(owner, ticker) = encode(owner) ++ SEPARATOR ++ encode(ticker)
script_tick_key(script_key, tick) == script_key \o <<SEPARATOR>> \o to_lowercase(tick)

\* lowerBound(owner)
min_script_tick_key(script_key) == script_key \o <<SEPARATOR>> \o MIN_TICKER_SENTINEL

\* upperBound(owner)
max_script_tick_key(script_key) == script_key \o <<SEPARATOR>> \o MAX_TICKER_SENTINEL

\* the bounds get_balances and get_transferable pass to range: min..max
ScanRangeSwapped(script_key) ==
  [lo |-> max_script_tick_key(script_key), hi |-> min_script_tick_key(script_key)]

ScanRange(script_key) ==
  [lo |-> min_script_tick_key(script_key), hi |-> max_script_tick_key(script_key)]

\* a range without its upper bound: lo..
InRangeNoUpper(k, r) == StrLeq(r.lo, k)

\* membership in the half-open range lo..hi
InRange(k, r) == StrLeq(r.lo, k) /\ StrLess(k, r.hi)

(* ---------------- Record Codec (bincode, fixed-width little-endian) ---------------- *)

\* an integer field, little-endian, two bytes wide in this model
U16LE(n) == <<n % 256, n \div 256>>

ReadU16LE(data, i) == data[i] + 256 * data[i + 1]

serialize_Balance(bal) == U16LE(bal.overall_balance) \o U16LE(bal.transferable_balance)

\* bincode::deserialize::<Balance>: fails when the input ends before the record does
deserialize_Balance(data) ==
  IF Len(data) < 4
  THEN [ok |-> FALSE, val |-> [overall_balance |-> 0, transferable_balance |-> 0]]
  ELSE [ok |-> TRUE,
        val |-> [overall_balance |-> ReadU16LE(data, 1),
                 transferable_balance |-> ReadU16LE(data, 3)]]

serialize_TokenInfo(info) == info.tick \o U16LE(info.supply)

\* bincode::deserialize::<TokenInfo>
deserialize_TokenInfo(data) ==
  IF Len(data) < 4
  THEN [ok |-> FALSE, val |-> [tick |-> <<>>, supply |-> 0]]
  ELSE [ok |-> TRUE, val |-> [tick |-> SubSeq(data, 1, 2), supply |-> ReadU16LE(data, 3)]]

\* a Vec is its length followed by its elements in order
serialize_VecTransferableLog(logs) ==
  LET Items[i \in 0..Len(logs)] ==
        IF i = 0 THEN <<>> ELSE Items[i - 1] \o <<logs[i].inscription_id, logs[i].amount>>
  IN <<Len(logs)>> \o Items[Len(logs)]

\* bincode::deserialize::<Vec<TransferableLog>>
deserialize_VecTransferableLog(data) ==
  IF Len(data) < 1 \/ Len(data) < 1 + 2 * data[1]
  THEN [ok |-> FALSE, val |-> <<>>]
  ELSE [ok |-> TRUE,
        val |-> [i \in 1..data[1] |->
                   [inscription_id |-> data[2 * i], amount |-> data[2 * i + 1]]]]

serialize_VecActionReceipt(receipts) ==
  LET Items[i \in 0..Len(receipts)] ==
        IF i = 0 THEN <<>>
        ELSE Items[i - 1] \o <<receipts[i].inscription_id, receipts[i].op>>
  IN <<Len(receipts)>> \o Items[Len(receipts)]

\* bincode::deserialize::<Vec<ActionReceipt>>
deserialize_VecActionReceipt(data) ==
  IF Len(data) < 1 \/ Len(data) < 1 + 2 * data[1]
  THEN [ok |-> FALSE, val |-> <<>>]
  ELSE [ok |-> TRUE,
        val |-> [i \in 1..data[1] |-> [inscription_id |-> data[2 * i], op |-> data[2 * i + 1]]]]

(* ---------------- the records and stored values of the model ---------------- *)

BalanceRecords ==
  {[overall_balance |-> 300, transferable_balance |-> 1],
   [overall_balance |-> 50, transferable_balance |-> 0]}

TokenInfoRecords == {[tick |-> <<97, 98>>, supply |-> 1000]}

TLog(id, amt) == [inscription_id |-> id, amount |-> amt]

\* batches: empty, one entry, two ids, one id twice
TransferableLogBatches ==
  {<<>>, <<TLog(7, 1)>>, <<TLog(8, 1), TLog(7, 2)>>, <<TLog(7, 1), TLog(7, 2)>>}

Receipt(id, op) == [inscription_id |-> id, op |-> op]

ActionReceiptBatches == {<<Receipt(7, 1), Receipt(8, 2)>>, <<Receipt(8, 2), Receipt(7, 1)>>}

\* a stored value that ends before any record of the four value types does
Malformed == <<9>>

(* ---------------- the database ---------------- *)

BRC20_BALANCES == "BRC20_BALANCES"

BRC20_TOKEN == "BRC20_TOKEN"

BRC20_EVENTS == "BRC20_EVENTS"

BRC20_TRANSFERABLELOG == "BRC20_TRANSFERABLELOG"

TableDefinitions == {BRC20_BALANCES, BRC20_TOKEN, BRC20_EVENTS, BRC20_TRANSFERABLELOG}

EmptyTable == <<>>

\* the table after key is set to value
Put(tbl, key, value) ==
  [k \in (DOMAIN tbl) \cup {key} |-> IF k = key THEN value ELSE tbl[k]]

\* a write transaction's insert: its open_table creates the table when missing
Insert(t, definition, key, value) ==
  LET tbl == IF definition \in DOMAIN t THEN t[definition] ELSE EmptyTable
  IN [d \in (DOMAIN t) \cup {definition} |->
        IF d = definition THEN Put(tbl, key, value) ELSE t[d]]

NoTables == <<>>

\* a populated database: two owners, one a prefix of the other, two tickers
SeededTables ==
  LET b1 == [overall_balance |-> 300, transferable_balance |-> 1]
      b2 == [overall_balance |-> 50, transferable_balance |-> 0]
      t1 == Insert(NoTables, BRC20_BALANCES, script_tick_key(<<97>>, <<97, 99>>), serialize_Balance(b1))
      t2 == Insert(t1, BRC20_BALANCES, script_tick_key(<<97>>, <<97, 98>>), serialize_Balance(b2))
      t3 == Insert(t2, BRC20_BALANCES, script_tick_key(<<97, 98>>, <<97, 98>>), serialize_Balance(b1))
      t4 == Insert(t3, BRC20_TOKEN, hex(to_lowercase(<<97, 98>>)),
                   serialize_TokenInfo([tick |-> <<97, 98>>, supply |-> 1000]))
      t5 == Insert(t4, BRC20_EVENTS, txid_to_string(<<1, 2>>),
                   serialize_VecActionReceipt(<<Receipt(7, 1), Receipt(8, 2)>>))
      t6 == Insert(t5, BRC20_TRANSFERABLELOG, script_tick_key(<<97>>, <<97, 99>>),
                   serialize_VecTransferableLog(<<TLog(7, 1)>>))
      t7 == Insert(t6, BRC20_TRANSFERABLELOG, script_tick_key(<<97>>, <<97, 98>>),
                   serialize_VecTransferableLog(<<TLog(8, 1), TLog(7, 2)>>))
  IN Insert(t7, BRC20_TRANSFERABLELOG, script_tick_key(<<97, 98>>, <<97, 99>>),
            serialize_VecTransferableLog(<<TLog(8, 1), TLog(7, 2)>>))

(* ---------------- results of a query ---------------- *)

Ok(v) == [kind |-> "Ok", val |-> v, err |-> "none"]

Err(e) == [kind |-> "Err", val |-> <<>>, err |-> e]

\* unwrap() on a failed deserialize: the thread panics, no value is returned
Panic == [kind |-> "Panic", val |-> <<>>, err |-> "none"]

\* Option<T>: None is the empty sequence, Some(x) the sequence <<x>>
None == <<>>

Some(x) == <<x>>

(* ---------------- ReaderWrapper and TableWrapper ---------------- *)

\* ReaderWrapper::open_table on the variant w over the tables t.
\* ReadTransaction::open_table fails with TableDoesNotExist on a missing table;
\* WriteTransaction::open_table creates a missing table and returns it.
open_table(w, t, definition) ==
  IF w = "Rtx"
  THEN [ok |-> definition \in DOMAIN t, tables |-> t]
  ELSE [ok |-> TRUE,
        tables |-> IF definition \in DOMAIN t
                   THEN t
                   ELSE [d \in (DOMAIN t) \cup {definition} |->
                           IF d = definition THEN EmptyTable ELSE t[d]]]

\* TableWrapper::get: the value stored under exactly this key, if any
get(tbl, key) == IF key \in DOMAIN tbl THEN Some(tbl[key]) ELSE None

\* the keys of S in ascending order
RECURSIVE Ascending(_)
Ascending(S) ==
  IF S = {} THEN <<>>
  ELSE LET m == CHOOSE k \in S : \A j \in S : StrLeq(k, j)
       IN <<m>> \o Ascending(S \ {m})

\* TableWrapper::range(lo..hi): the values of the keys in the range, in key order
range(tbl, r) ==
  LET ks == Ascending({k \in DOMAIN tbl : InRange(k, r)})
  IN [i \in 1..Len(ks) |-> tbl[ks[i]]]

\* TableWrapper::range(..): every value, in key order
range_full(tbl) ==
  LET ks == Ascending(DOMAIN tbl)
  IN [i \in 1..Len(ks) |-> tbl[ks[i]]]

\* iter.map(|v| deserialize(v).unwrap()).collect() over decoded values
Collect(dec) ==
  IF \E i \in 1..Len(dec) : ~dec[i].ok THEN Panic
  ELSE Ok([i \in 1..Len(dec) |-> dec[i].val])

\* the batches concatenated last to first
RECURSIVE flatten_reversed(_)
flatten_reversed(ss) == IF ss = <<>> THEN <<>> ELSE flatten_reversed(Tail(ss)) \o ss[1]

\* Iterator::flatten of a sequence of sequences
RECURSIVE flatten(_)
flatten(ss) == IF ss = <<>> THEN <<>> ELSE ss[1] \o flatten(Tail(ss))

TableErr == Err("TableDoesNotExist")

(* ---------------- LedgerRead for BRC20DatabaseReader ---------------- *)
\* Each query yields its result and the tables as the transaction holds them
\* after the query.

get_balances(w, t, script_key) ==
  LET o == open_table(w, t, BRC20_BALANCES)
  IN IF ~o.ok THEN [res |-> TableErr, tables |-> o.tables]
     ELSE LET rows == range(o.tables[BRC20_BALANCES], ScanRange(script_key))
          IN [res |-> Collect([i \in 1..Len(rows) |-> deserialize_Balance(rows[i])]),
              tables |-> o.tables]

\* the point lookup made with the owner's lower bound instead of the point key
get_balance_minkey(w, t, script_key, tick) ==
  LET o == open_table(w, t, BRC20_BALANCES)
  IN IF ~o.ok THEN [res |-> TableErr, tables |-> o.tables]
     ELSE LET v == get(o.tables[BRC20_BALANCES], min_script_tick_key(script_key))
          IN [res |-> IF v = None THEN Ok(None)
                      ELSE IF ~deserialize_Balance(v[1]).ok THEN Panic
                      ELSE Ok(Some(deserialize_Balance(v[1]).val)),
              tables |-> o.tables]

get_balance(w, t, script_key, tick) ==
  LET o == open_table(w, t, BRC20_BALANCES)
  IN IF ~o.ok THEN [res |-> TableErr, tables |-> o.tables]
     ELSE LET v == get(o.tables[BRC20_BALANCES], script_tick_key(script_key, tick))
          IN [res |-> IF v = None THEN Ok(None)
                      ELSE IF ~deserialize_Balance(v[1]).ok THEN Panic
                      ELSE Ok(Some(deserialize_Balance(v[1]).val)),
              tables |-> o.tables]

get_token_info(w, t, tick) ==
  LET o == open_table(w, t, BRC20_TOKEN)
  IN IF ~o.ok THEN [res |-> TableErr, tables |-> o.tables]
     ELSE LET v == get(o.tables[BRC20_TOKEN], hex(to_lowercase(tick)))
          IN [res |-> IF v = None THEN Ok(None)
                      ELSE IF ~deserialize_TokenInfo(v[1]).ok THEN Panic
                      ELSE Ok(Some(deserialize_TokenInfo(v[1]).val)),
              tables |-> o.tables]

get_tokens_info(w, t) ==
  LET o == open_table(w, t, BRC20_TOKEN)
  IN IF ~o.ok THEN [res |-> TableErr, tables |-> o.tables]
     ELSE LET rows == range_full(o.tables[BRC20_TOKEN])
          IN [res |-> Collect([i \in 1..Len(rows) |-> deserialize_TokenInfo(rows[i])]),
              tables |-> o.tables]

\* an absent key reported as an error instead of an empty batch
get_transaction_receipts_err(w, t, txid) ==
  LET o == open_table(w, t, BRC20_EVENTS)
  IN IF ~o.ok THEN [res |-> TableErr, tables |-> o.tables]
     ELSE LET v == get(o.tables[BRC20_EVENTS], txid_to_string(txid))
          IN [res |-> IF v = None THEN Err("KeyNotFound")
                      ELSE IF ~deserialize_VecActionReceipt(v[1]).ok THEN Panic
                      ELSE Ok(deserialize_VecActionReceipt(v[1]).val),
              tables |-> o.tables]

get_transaction_receipts(w, t, txid) ==
  LET o == open_table(w, t, BRC20_EVENTS)
  IN IF ~o.ok THEN [res |-> TableErr, tables |-> o.tables]
     ELSE LET v == get(o.tables[BRC20_EVENTS], txid_to_string(txid))
          IN [res |-> IF v = None THEN Ok(<<>>)
                      ELSE IF ~deserialize_VecActionReceipt(v[1]).ok THEN Panic
                      ELSE Ok(deserialize_VecActionReceipt(v[1]).val),
              tables |-> o.tables]

get_transferable(w, t, script) ==
  LET o == open_table(w, t, BRC20_TRANSFERABLELOG)
  IN IF ~o.ok THEN [res |-> TableErr, tables |-> o.tables]
     ELSE LET rows == range(o.tables[BRC20_TRANSFERABLELOG], ScanRange(script))
              c == Collect([i \in 1..Len(rows) |-> deserialize_VecTransferableLog(rows[i])])
          IN [res |-> IF c.kind = "Ok" THEN Ok(flatten(c.val)) ELSE c,
              tables |-> o.tables]

get_transferable_by_tick(w, t, script, tick) ==
  LET o == open_table(w, t, BRC20_TRANSFERABLELOG)
  IN IF ~o.ok THEN [res |-> TableErr, tables |-> o.tables]
     ELSE LET v == get(o.tables[BRC20_TRANSFERABLELOG], script_tick_key(script, tick))
          IN [res |-> IF v = None THEN Ok(<<>>)
                      ELSE IF ~deserialize_VecTransferableLog(v[1]).ok THEN Panic
                      ELSE Ok(deserialize_VecTransferableLog(v[1]).val),
              tables |-> o.tables]

\* the last matching entry instead of the first
find_last(logs, inscription_id) ==
  IF \E i \in 1..Len(logs) : logs[i].inscription_id = inscription_id
  THEN Some(logs[CHOOSE i \in 1..Len(logs) :
                   /\ logs[i].inscription_id = inscription_id
                   /\ \A j \in (i + 1)..Len(logs) : logs[j].inscription_id # inscription_id])
  ELSE None

\* iter().find(|log| log.inscription_id == id): the first matching entry
find(logs, inscription_id) ==
  IF \E i \in 1..Len(logs) : logs[i].inscription_id = inscription_id
  THEN Some(logs[CHOOSE i \in 1..Len(logs) :
                   /\ logs[i].inscription_id = inscription_id
                   /\ \A j \in 1..(i - 1) : logs[j].inscription_id # inscription_id])
  ELSE None

get_transferable_by_id(w, t, script, inscription_id) ==
  LET g == get_transferable(w, t, script)
  IN [res |-> IF g.res.kind = "Ok" THEN Ok(find(g.res.val, inscription_id)) ELSE g.res,
      tables |-> g.tables]

(* ---------------- the state machine ---------------- *)

NoRange == [lo |-> <<>>, hi |-> <<>>]

\* the last query: its name, its arguments, the range it scanned, its result
Query(op, script_key, tick, txid, inscription_id, r, res) ==
  [op |-> op, script_key |-> script_key, tick |-> tick, txid |-> txid,
   inscription_id |-> inscription_id, range |-> r, res |-> res]

NoQuery == Query("none", <<>>, <<>>, <<>>, 0, NoRange, Ok(<<>>))

Init ==
  /\ tables \in {NoTables, SeededTables}
  /\ reader = "none"
  /\ last = NoQuery
  /\ writes = 0

\* BRC20DatabaseReader::new over a read-only transaction
new ==
  /\ reader = "none"
  /\ reader' = "Rtx"
  /\ UNCHANGED <<tables, last, writes>>

\* new_with_wtx over a read-write transaction
new_with_wtx ==
  /\ reader = "none"
  /\ reader' = "Wtx"
  /\ UNCHANGED <<tables, last, writes>>

\* The write path: before a reader exists it commits to the database; while a
\* Wtx reader exists it writes through the same transaction.  A snapshot
\* (Rtx) sees no later write.
CanWrite == reader \in {"none", "Wtx"} /\ writes < MaxWrites

Write(definition, key, value) ==
  /\ CanWrite
  /\ tables' = Insert(tables, definition, key, value)
  /\ writes' = writes + 1
  /\ last' = NoQuery
  /\ UNCHANGED reader

WriteBalance ==
  \E script_key \in ScriptKeys, tick \in Ticks :
    \E value \in {serialize_Balance(b) : b \in BalanceRecords} \cup {Malformed} :
      Write(BRC20_BALANCES, script_tick_key(script_key, tick), value)

WriteTokenInfo ==
  \E tick \in Ticks :
    \E value \in {serialize_TokenInfo(i) : i \in TokenInfoRecords} \cup {Malformed} :
      Write(BRC20_TOKEN, hex(to_lowercase(tick)), value)

WriteReceipts ==
  \E txid \in Txids :
    \E value \in {serialize_VecActionReceipt(b) : b \in ActionReceiptBatches} \cup {Malformed} :
      Write(BRC20_EVENTS, txid_to_string(txid), value)

WriteTransferableLog ==
  \E script_key \in ScriptKeys, tick \in Ticks :
    \E value \in {serialize_VecTransferableLog(b) : b \in TransferableLogBatches}
                   \cup {Malformed} :
      Write(BRC20_TRANSFERABLELOG, script_tick_key(script_key, tick), value)

\* a query of the reader: the result is recorded, the tables are as the query left them
Answer(q, out) ==
  /\ reader # "none"
  /\ last' = [q EXCEPT !.res = out.res]
  /\ tables' = out.tables
  /\ UNCHANGED <<reader, writes>>

Call_get_balances ==
  \E script_key \in ScriptKeys :
    Answer(Query("get_balances", script_key, <<>>, <<>>, 0, ScanRange(script_key), Panic),
           get_balances(reader, tables, script_key))

Call_get_balance ==
  \E script_key \in ScriptKeys, tick \in Ticks :
    Answer(Query("get_balance", script_key, tick, <<>>, 0, NoRange, Panic),
           get_balance(reader, tables, script_key, tick))

Call_get_token_info ==
  \E tick \in Ticks :
    Answer(Query("get_token_info", <<>>, tick, <<>>, 0, NoRange, Panic),
           get_token_info(reader, tables, tick))

Call_get_tokens_info ==
  Answer(Query("get_tokens_info", <<>>, <<>>, <<>>, 0, NoRange, Panic),
         get_tokens_info(reader, tables))

Call_get_transaction_receipts ==
  \E txid \in Txids :
    Answer(Query("get_transaction_receipts", <<>>, <<>>, txid, 0, NoRange, Panic),
           get_transaction_receipts(reader, tables, txid))

Call_get_transferable ==
  \E script \in ScriptKeys :
    Answer(Query("get_transferable", script, <<>>, <<>>, 0, ScanRange(script), Panic),
           get_transferable(reader, tables, script))

Call_get_transferable_by_tick ==
  \E script \in ScriptKeys, tick \in Ticks :
    Answer(Query("get_transferable_by_tick", script, tick, <<>>, 0, NoRange, Panic),
           get_transferable_by_tick(reader, tables, script, tick))

Call_get_transferable_by_id ==
  \E script \in ScriptKeys, inscription_id \in InscriptionIds :
    Answer(Query("get_transferable_by_id", script, <<>>, <<>>, inscription_id,
                 ScanRange(script), Panic),
           get_transferable_by_id(reader, tables, script, inscription_id))

Next ==
  \/ new
  \/ new_with_wtx
  \/ WriteBalance
  \/ WriteTokenInfo
  \/ WriteReceipts
  \/ WriteTransferableLog
  \/ Call_get_balances
  \/ Call_get_balance
  \/ Call_get_token_info
  \/ Call_get_tokens_info
  \/ Call_get_transaction_receipts
  \/ Call_get_transferable
  \/ Call_get_transferable_by_tick
  \/ Call_get_transferable_by_id

Spec == Init /\ [][Next]_vars

QueryOps ==
  {"get_balances", "get_balance", "get_token_info", "get_tokens_info",
   "get_transaction_receipts", "get_transferable", "get_transferable_by_tick",
   "get_transferable_by_id"}

(* ---------------- helpers of the properties ---------------- *)

\* the keys of owner script_key present in tbl
OwnKeys(tbl, script_key) ==
  {script_tick_key(script_key, tick) : tick \in Ticks} \cap DOMAIN tbl

\* the enumerations of the key set S in strictly ascending order
AscendingEnums(S) ==
  {f \in [1..Cardinality(S) -> S] :
     \A i, j \in 1..Cardinality(S) : i < j => StrLess(f[i], f[j])}

\* the written record whose encoding is the stored value
StoredBalance(data) == CHOOSE b \in BalanceRecords : serialize_Balance(b) = data

IsStoredBalance(data) == \E b \in BalanceRecords : serialize_Balance(b) = data

StoredLogBatch(data) ==
  CHOOSE b \in TransferableLogBatches : serialize_VecTransferableLog(b) = data

IsStoredLogBatch(data) ==
  \E b \in TransferableLogBatches : serialize_VecTransferableLog(b) = data

\* the batch stored for (script, tick); empty when there is none
LogBatchOf(tbl, script, tick) ==
  IF script_tick_key(script, tick) \in DOMAIN tbl
  THEN StoredLogBatch(tbl[script_tick_key(script, tick)])
  ELSE <<>>

HasId(batch, inscription_id) ==
  \E i \in 1..Len(batch) : batch[i].inscription_id = inscription_id

\* the first entry of batch with the id, as an Option
FirstWithId(batch, inscription_id) ==
  IF HasId(batch, inscription_id)
  THEN LET i == CHOOSE n \in 1..Len(batch) :
                  /\ batch[n].inscription_id = inscription_id
                  /\ \A m \in 1..Len(batch) : batch[m].inscription_id = inscription_id => n <= m
       IN <<batch[i]>>
  ELSE <<>>

\* the concatenation of the sequences ss[1], ss[2], ...
ConcatAll(ss) ==
  LET Upto[i \in 0..Len(ss)] == IF i = 0 THEN <<>> ELSE Upto[i - 1] \o ss[i]
  IN Upto[Len(ss)]

\* sub occurs in s as a block of consecutive entries
IsContiguousIn(sub, s) ==
  \E off \in 0..(Len(s) - Len(sub)) :
    \A i \in 1..Len(sub) : s[off + i] = sub[i]

(* ---------------- C1 ---------------- *)

\* longest owner encoding the key contract is checked for
MaxOwnerLen == 2

\* owner encodings: every string over two bytes other than the separator
OwnerEncodings == UNION {[1..n -> {97, 98}] : n \in 1..MaxOwnerLen}

\* tickers: the model's, and every two-byte string over the lowest byte, an
\* upper-case letter and the highest byte below the upper sentinel's
TickerValues == Ticks \cup [1..2 -> {0, 65, 254}]

\* C1: for the owner O of a range scan (get_balances, get_transferable) and any
\* two tickers ordered by their encoding, lowerBound(O) <= pointKey(O,T1) <
\* pointKey(O,T2) < upperBound(O), and no pointKey of another owner lies in the
\* scanned half-open range.
C1_KeyRangeContract ==
  last.op \in {"get_balances", "get_transferable"} =>
    LET O == last.script_key
        r == last.range
    IN /\ \A T \in TickerValues :
            StrLeq(r.lo, script_tick_key(O, T)) /\ StrLess(script_tick_key(O, T), r.hi)
       /\ \A T1, T2 \in TickerValues :
            StrLess(to_lowercase(T1), to_lowercase(T2)) =>
              StrLess(script_tick_key(O, T1), script_tick_key(O, T2))
       /\ \A P \in OwnerEncodings \ {O} : \A T \in TickerValues :
            ~InRange(script_tick_key(P, T), r)

\* a scan of owner "ab" over a table that also holds two keys of owner "a"
C1_Witness ==
  /\ last.op = "get_balances"
  /\ last.script_key = <<97, 98>>
  /\ BRC20_BALANCES \in DOMAIN tables
  /\ Cardinality(OwnKeys(tables[BRC20_BALANCES], <<97>>)) = 2
  /\ Cardinality(OwnKeys(tables[BRC20_BALANCES], <<97, 98>>)) = 2

(* ---------------- C2 ---------------- *)

\* C2: over an existing balances table whose records of owner O are encoded
\* Balance records, get_balances(O) returns exactly those records, each once,
\* in ascending key order, and nothing of any other owner (empty when O has
\* no record).
C2_BalancesOfOwner ==
  (last.op = "get_balances" /\ BRC20_BALANCES \in DOMAIN tables) =>
    LET tbl == tables[BRC20_BALANCES]
        own == OwnKeys(tbl, last.script_key)
    IN (\A k \in own : IsStoredBalance(tbl[k])) =>
         /\ last.res.kind = "Ok"
         /\ Len(last.res.val) = Cardinality(own)
         /\ \E f \in AscendingEnums(own) :
              \A i \in 1..Cardinality(own) : last.res.val[i] = StoredBalance(tbl[f[i]])

\* owner "a" has two different records, owner "ab" (an extension of "a") has one
C2_Witness ==
  /\ last.op = "get_balances"
  /\ last.script_key = <<97>>
  /\ last.res.kind = "Ok"
  /\ Len(last.res.val) = 2
  /\ last.res.val[1] # last.res.val[2]
  /\ OwnKeys(tables[BRC20_BALANCES], <<97, 98>>) # {}

(* ---------------- C3 ---------------- *)

\* the stored values the last query decodes, each with the decoder applied to it
DecodedByLast ==
  LET q == last
      tbl(d) == IF d \in DOMAIN tables THEN tables[d] ELSE EmptyTable
      at(d, k) == IF k \in DOMAIN tbl(d) THEN {tbl(d)[k]} ELSE {}
      scanned(d) == {tbl(d)[k] : k \in {j \in DOMAIN tbl(d) : InRange(j, q.range)}}
  IN CASE q.op = "get_balances" ->
            {deserialize_Balance(v) : v \in scanned(BRC20_BALANCES)}
       [] q.op = "get_balance" ->
            {deserialize_Balance(v) :
               v \in at(BRC20_BALANCES, script_tick_key(q.script_key, q.tick))}
       [] q.op = "get_token_info" ->
            {deserialize_TokenInfo(v) : v \in at(BRC20_TOKEN, hex(to_lowercase(q.tick)))}
       [] q.op = "get_tokens_info" ->
            {deserialize_TokenInfo(tbl(BRC20_TOKEN)[k]) : k \in DOMAIN tbl(BRC20_TOKEN)}
       [] q.op = "get_transaction_receipts" ->
            {deserialize_VecActionReceipt(v) : v \in at(BRC20_EVENTS, txid_to_string(q.txid))}
       [] q.op \in {"get_transferable", "get_transferable_by_id"} ->
            {deserialize_VecTransferableLog(v) : v \in scanned(BRC20_TRANSFERABLELOG)}
       [] q.op = "get_transferable_by_tick" ->
            {deserialize_VecTransferableLog(v) :
               v \in at(BRC20_TRANSFERABLELOG, script_tick_key(q.script_key, q.tick))}
       [] OTHER -> {}

\* C3: a query that decodes a malformed stored value returns a DecodeError
\* value to its caller; it does not panic and does not return a record.
C3_MalformedYieldsDecodeError ==
  (last.op \in QueryOps /\ \E d \in DecodedByLast : ~d.ok) =>
    (last.res.kind = "Err" /\ last.res.err = "DecodeError")

(* ---------------- C4 ---------------- *)

\* every batch stored for the owner of the last query is an encoded batch
OwnBatchesStored ==
  /\ BRC20_TRANSFERABLELOG \in DOMAIN tables
  /\ \A k \in OwnKeys(tables[BRC20_TRANSFERABLELOG], last.script_key) :
       IsStoredLogBatch(tables[BRC20_TRANSFERABLELOG][k])

Run(w, t, q) ==
  CASE q.op = "get_balances" -> get_balances(w, t, q.script_key)
    [] q.op = "get_balance" -> get_balance(w, t, q.script_key, q.tick)
    [] q.op = "get_token_info" -> get_token_info(w, t, q.tick)
    [] q.op = "get_tokens_info" -> get_tokens_info(w, t)
    [] q.op = "get_transaction_receipts" -> get_transaction_receipts(w, t, q.txid)
    [] q.op = "get_transferable" -> get_transferable(w, t, q.script_key)
    [] q.op = "get_transferable_by_tick" -> get_transferable_by_tick(w, t, q.script_key, q.tick)
    [] q.op = "get_transferable_by_id" ->
         get_transferable_by_id(w, t, q.script_key, q.inscription_id)

\* C5: the answer a reader over a read-only transaction gave is the answer a
\* reader over a read-write transaction gives to the same query over the same
\* tables (a query of an Rtx reader leaves the tables as they were).
C5_VariantsAgree ==
  (last.op \in QueryOps /\ reader = "Rtx") => last.res = Run("Wtx", tables, last).res

(* ---------------- C6 ---------------- *)

\* the table a query opens
TableOf(op) ==
  CASE op \in {"get_balances", "get_balance"} -> BRC20_BALANCES
    [] op \in {"get_token_info", "get_tokens_info"} -> BRC20_TOKEN
    [] op = "get_transaction_receipts" -> BRC20_EVENTS
    [] OTHER -> BRC20_TRANSFERABLELOG

\* C6: on either variant, a query whose table does not exist when it is issued
\* returns the table error to its caller.
C6_MissingTableFails ==
  [][(last'.op \in QueryOps /\ TableOf(last'.op) \notin DOMAIN tables)
       => last'.res = TableErr]_vars

(* ---------------- C7 ---------------- *)

\* C7: a step that answers a query leaves the set of tables and every table's
\* content as they were, on either variant and whatever the query returns.
C7_QueriesLeaveTablesUnchanged ==
  [][last'.op \in QueryOps => tables' = tables]_vars

(* ---------------- C8 ---------------- *)

\* C8: over an existing events table, get_transaction_receipts(txid) returns
\* Ok with the empty sequence when txid has no entry, and the stored batch in
\* its stored order when txid has an entry holding an encoded batch.
C8_ReceiptsOfTxid ==
  (last.op = "get_transaction_receipts" /\ BRC20_EVENTS \in DOMAIN tables) =>
    LET tbl == tables[BRC20_EVENTS]
        k == txid_to_string(last.txid)
    IN /\ k \notin DOMAIN tbl => last.res = Ok(<<>>)
       /\ \A b \in ActionReceiptBatches :
            (k \in DOMAIN tbl /\ tbl[k] = serialize_VecActionReceipt(b)) => last.res = Ok(b)

\* the events table holds the batch of txid 0102 and nothing for txid 0304
C8_Witness ==
  /\ last.op = "get_transaction_receipts"
  /\ last.txid = <<3, 4>>
  /\ BRC20_EVENTS \in DOMAIN tables
  /\ DOMAIN tables[BRC20_EVENTS] = {txid_to_string(<<1, 2>>)}
  /\ last.res = Ok(<<>>)

(* ---------------- C9 ---------------- *)

\* C9: whenever the value stored under pointKey(O,T) is the encoding of a
\* Balance B, whatever else the table holds, get_balance(O,T) returns Some(B).
C9_BalanceRoundTrip ==
  (last.op = "get_balance" /\ BRC20_BALANCES \in DOMAIN tables) =>
    LET tbl == tables[BRC20_BALANCES]
        k == script_tick_key(last.script_key, last.tick)
    IN \A B \in BalanceRecords :
         (k \in DOMAIN tbl /\ tbl[k] = serialize_Balance(B)) => last.res = Ok(Some(B))

\* Balance{300,1} written for owner "ab" and ticker "ac", then read with the
\* ticker in the same spelling, beside the records of the populated database
C9_Witness ==
  /\ writes = 1
  /\ last.op = "get_balance"
  /\ last.script_key = <<97, 98>>
  /\ last.tick = <<97, 99>>
  /\ Cardinality(DOMAIN tables[BRC20_BALANCES]) = 4
  /\ last.res = Ok(Some([overall_balance |-> 300, transferable_balance |-> 1]))

(* ---------------- C10 ---------------- *)

\* C10: over an existing transferable-log table whose batches of owner O are
\* encoded batches, get_transferable(O) is the concatenation of those batches
\* in ascending key order, each in its stored order, and for every ticker T
\* get_transferable_by_tick(O,T) is a block of consecutive entries of it.
C10_TransferableConcatenation ==
  (last.op = "get_transferable" /\ OwnBatchesStored) =>
    LET tbl == tables[BRC20_TRANSFERABLELOG]
        own == OwnKeys(tbl, last.script_key)
    IN /\ last.res.kind = "Ok"
       /\ \E f \in AscendingEnums(own) :
            last.res.val = ConcatAll([i \in 1..Cardinality(own) |-> StoredLogBatch(tbl[f[i]])])
       /\ \A T \in Ticks :
            LET bt == get_transferable_by_tick(reader, tables, last.script_key, T).res
            IN /\ bt = Ok(LogBatchOf(tbl, last.script_key, T))
               /\ IsContiguousIn(bt.val, last.res.val)

\* owner "a" holds <<(8,1),(7,2)>> under "ab" and <<(7,1)>> under "ac"; owner
\* "ab" holds a batch too
C10_Witness ==
  /\ last.op = "get_transferable"
  /\ last.script_key = <<97>>
  /\ OwnBatchesStored
  /\ OwnKeys(tables[BRC20_TRANSFERABLELOG], <<97, 98>>) # {}
  /\ last.res = Ok(<<TLog(8, 1), TLog(7, 2), TLog(7, 1)>>)

====
